---------------------------- MODULE Spec2Model ----------------------------
(***************************************************************************)
(* Model of data.py: MinuteHistoricDataHandlerCSV, the historic bar feed.  *)
(*                                                                         *)
(* A DataFrame is a sequence of rows in index order; a row is a record     *)
(* [datetime, close, volume].  close stands for the four price columns     *)
(* open/high/low/close, which the code always treats alike (one ffill over *)
(* the frame); volume is the column the code fills separately.  A missing  *)
(* cell is NaN.  A Panel is a record [major_axis, frames]: its major axis  *)
(* and one frame per item.                                                 *)
(*                                                                         *)
(* The constructor calls self._create_bars_generator, which data.py does   *)
(* not define, and update_bars reads self.bars_generator[symbol]; the      *)
(* missing method is modelled from the design notes as giving every symbol *)
(* its own cursor over _get_new_bars.                                      *)
(***************************************************************************)
EXTENDS Integers, Sequences, FiniteSets, TLC

\* ---------------------------------------------------------------- bounds
MaxT     == 3     \* time slots a file may hold a row for
MaxCalls == 4     \* update_bars() calls in one run
MaxN     == 3     \* largest n passed to get_latest_bars

\* ------------------------------------------------------------- constants
nrows == 50       \* read_csv(..., nrows=50)
NaN   == -1       \* a missing cell (prices and volumes are >= 0)

Universe    == {"AAPL", "MSFT", "GOOG"}
SymbolLists == {<<"AAPL">>, <<"AAPL", "MSFT">>}
CellKinds   == {"absent", "full", "blank"}
MarketEvent == "MarketEvent"

Min(a, b) == IF a < b THEN a ELSE b
Max(a, b) == IF a > b THEN a ELSE b
Range(s)  == {s[i] : i \in DOMAIN s}

VARIABLES symbols, csv_dir, bars_data, latest_bars_data, bars_generator,
          continue_backtest, events, ret, calls, succ, exhausted

vars == <<symbols, csv_dir, bars_data, latest_bars_data, bars_generator,
          continue_backtest, events, ret, calls, succ, exhausted>>

\* ------------------------------------------------------------ the files
\* Slot t of a file is the line with this date and time column.
DateOf(t) == 1 + ((t - 1) \div 2)
TimeOf(t) == (t - 1) % 2

\* parse_dates=[['date', 'time']]: the two columns become one timestamp key.
parse_dates(date, time) == date * 100 + time

SymIndex(sym) == IF sym = "AAPL" THEN 1 ELSE IF sym = "MSFT" THEN 2 ELSE 3
Price(sym, t) == 10 * SymIndex(sym) + t
Volume(sym, t) == 5 + t

\* The line of file sym at slot t, as read_csv parses it.
Row(sym, t, kind) ==
    [datetime |-> parse_dates(DateOf(t), TimeOf(t)),
     close    |-> IF kind = "full" THEN Price(sym, t) ELSE NaN,
     volume   |-> IF kind = "full" THEN Volume(sym, t) ELSE NaN]

Take(s, n) == SubSeq(s, 1, Min(n, Len(s)))

\* pd.read_csv(..., index_col=[0], parse_dates=..., nrows=50)
read_csv(dir, sym) ==
    LET slots   == [t \in 1..MaxT |-> t]
        present == SelectSeq(slots, LAMBDA t : dir[sym][t] # "absent")
    IN  Take([i \in 1..Len(present) |->
                 Row(sym, present[i], dir[sym][present[i]])], nrows)

\* frame['volume'].fillna(0, inplace=True)
fillna_volume(df) ==
    [i \in 1..Len(df) |->
        IF df[i].volume = NaN THEN [df[i] EXCEPT !.volume = 0] ELSE df[i]]

RECURSIVE LastClose(_, _)
LastClose(df, i) ==
    IF i = 0 THEN NaN
    ELSE IF df[i].close # NaN THEN df[i].close ELSE LastClose(df, i - 1)

RECURSIVE LastVolume(_, _)
LastVolume(df, i) ==
    IF i = 0 THEN NaN
    ELSE IF df[i].volume # NaN THEN df[i].volume ELSE LastVolume(df, i - 1)

\* frame.fillna(method='ffill', inplace=True): every column, down the rows.
ffill(df) ==
    [i \in 1..Len(df) |->
        [df[i] EXCEPT !.close = LastClose(df, i), !.volume = LastVolume(df, i)]]

Index(df) == [i \in 1..Len(df) |-> df[i].datetime]

\* _open_convert_csv_files.  comb_index.union(...) and frame.reindex(...)
\* return new objects that the code drops, so each frame keeps its own
\* index here; the frames are filled in place.
open_convert_csv_files(syms, dir) ==
    [s \in Range(syms) |-> ffill(fillna_volume(read_csv(dir, s)))]

\* ------------------------------------------------------------ the Panel
RECURSIVE SortedSeq(_)
SortedSeq(S) ==
    IF S = {} THEN <<>>
    ELSE LET m == CHOOSE x \in S : \A y \in S : x <= y
         IN  <<m>> \o SortedSeq(S \ {m})

NaNRow(dt) == [datetime |-> dt, close |-> NaN, volume |-> NaN]

\* DataFrame.reindex(index): the row of each key, an all-NaN row where the
\* frame has none.
reindex(df, index) ==
    [i \in 1..Len(index) |->
        IF \E j \in 1..Len(df) : df[j].datetime = index[i]
        THEN df[CHOOSE j \in 1..Len(df) : df[j].datetime = index[i]]
        ELSE NaNRow(index[i])]

UnionIndex(frames) ==
    SortedSeq(UNION {Range(Index(frames[s])) : s \in DOMAIN frames})

\* A container that keeps every frame on its own index.
PanelUnaligned(frames) ==
    [major_axis |-> UnionIndex(frames), frames |-> frames]

\* pd.Panel(dict of DataFrames): the major axis is the union of the frames'
\* indexes and every frame is conformed to it.
Panel(frames) ==
    [major_axis |-> UnionIndex(frames),
     frames     |-> [s \in DOMAIN frames |->
                        reindex(frames[s], UnionIndex(frames))]]

\* Panel.major_xs(datetime): the cross-section at one key, per item.
major_xs(panel, dt) ==
    [s \in DOMAIN panel.frames |->
        LET df == panel.frames[s]
        IN  IF \E j \in 1..Len(df) : df[j].datetime = dt
            THEN df[CHOOSE j \in 1..Len(df) : df[j].datetime = dt]
            ELSE NaNRow(dt)]

\* ----------------------------------------------------------- the cursors
\* _create_bars_generator: one cursor per symbol, nothing consumed yet.
create_bars_generator(syms) == [s \in Range(syms) |-> 0]

\* The same walk stopping one key short of the end of the axis.
next_bar_short(panel, gen, symbol) ==
    IF gen[symbol] + 1 >= Len(panel.major_axis)
    THEN [kind |-> "StopIteration"]
    ELSE [kind |-> "bar",
          bar  |-> major_xs(panel, panel.major_axis[gen[symbol] + 1])[symbol]]

\* next(self.bars_generator[symbol]) over _get_new_bars: walk the panel's
\* major axis, yield the cross-section at each key; StopIteration after it.
next_bar(panel, gen, symbol) ==
    IF gen[symbol] >= Len(panel.major_axis)
    THEN [kind |-> "StopIteration"]
    ELSE [kind |-> "bar",
          bar  |-> major_xs(panel, panel.major_axis[gen[symbol] + 1])[symbol]]

\* ------------------------------------------------------------ operations
\* bars_list[:n], the first n rows instead of the last n.
SliceFirst(bars_list, n) == SubSeq(bars_list, 1, Min(n, Len(bars_list)))

\* bars_list[-n:]
SliceLast(bars_list, n) ==
    IF n = 0 THEN bars_list
    ELSE SubSeq(bars_list, Max(Len(bars_list) - n, 0) + 1, Len(bars_list))

\* get_latest_bars without the try/except: the KeyError reaches the caller.
get_latest_bars_uncaught(latest, symbol, n) ==
    IF symbol \notin DOMAIN latest
    THEN [kind |-> "KeyError", bars |-> <<>>, printed |-> FALSE]
    ELSE [kind |-> "DataFrame", bars |-> SliceLast(latest[symbol], n),
          printed |-> FALSE]

\* get_latest_bars: what the call returns (kind "None": the implicit return
\* after the except branch) and whether it printed the diagnostic.
get_latest_bars_value(latest, symbol, n) ==
    IF symbol \notin DOMAIN latest
    THEN [kind |-> "None", bars |-> <<>>, printed |-> TRUE]
    ELSE [kind |-> "DataFrame", bars |-> SliceLast(latest[symbol], n),
          printed |-> FALSE]

\* ret after a call that returns nothing (the constructor, update_bars).
Returned(op) ==
    [op |-> op, symbol |-> "", n |-> 0,
     out |-> [kind |-> "None", bars |-> <<>>, printed |-> FALSE]]

get_latest_bars ==
    \E symbol \in Universe, n \in 0..MaxN :
        /\ ret' = [op |-> "get_latest_bars", symbol |-> symbol, n |-> n,
                   out |-> get_latest_bars_value(latest_bars_data, symbol, n)]
        /\ UNCHANGED <<symbols, csv_dir, bars_data, latest_bars_data,
                       bars_generator, continue_backtest, events, calls,
                       succ, exhausted>>

\* The loop body with an except branch that leaves the flag alone.
update_symbol_noflag(panel, st, symbol) ==
    LET r == next_bar(panel, st.gen, symbol)
    IN  IF r.kind = "StopIteration"
        THEN [st EXCEPT !.exhausted = @ \cup {symbol}]
        ELSE [st EXCEPT !.gen[symbol] = @ + 1,
                        !.latest[symbol] = Append(@, r.bar),
                        !.succ[symbol] = @ + 1]

\* The loop body with a generator that starts over once it is exhausted.
update_symbol_restart(panel, st, symbol) ==
    LET r == next_bar(panel, st.gen, symbol)
    IN  IF r.kind = "StopIteration"
        THEN [st EXCEPT !.flag = FALSE, !.exhausted = @ \cup {symbol},
                        !.gen[symbol] = 0]
        ELSE [st EXCEPT !.gen[symbol] = @ + 1,
                        !.latest[symbol] = Append(@, r.bar),
                        !.succ[symbol] = @ + 1]

\* The loop body keeping only the newest bar instead of appending it.
update_symbol_overwrite(panel, st, symbol) ==
    LET r == next_bar(panel, st.gen, symbol)
    IN  IF r.kind = "StopIteration"
        THEN [st EXCEPT !.flag = FALSE, !.exhausted = @ \cup {symbol}]
        ELSE [st EXCEPT !.gen[symbol] = @ + 1,
                        !.latest[symbol] = <<r.bar>>,
                        !.succ[symbol] = @ + 1]

\* The body of update_bars's loop for one symbol.  st carries the fields the
\* loop writes; succ and exhausted record which branch each symbol took.
update_symbol(panel, st, symbol) ==
    LET r == next_bar(panel, st.gen, symbol)
    IN  IF r.kind = "StopIteration"
        THEN [st EXCEPT !.flag = FALSE, !.exhausted = @ \cup {symbol}]
        ELSE IF r.kind # "None"
             THEN [st EXCEPT !.gen[symbol] = @ + 1,
                             !.latest[symbol] = Append(@, r.bar),
                             !.succ[symbol] = @ + 1]
             ELSE [st EXCEPT !.gen[symbol] = @ + 1]

RECURSIVE update_loop(_, _, _, _)
update_loop(panel, st, syms, i) ==
    IF i > Len(syms) THEN st
    ELSE update_loop(panel, update_symbol(panel, st, syms[i]), syms, i + 1)

\* self.events.put(item=MarketEvent())
put(queue, item) == Append(queue, item)

\* update_bars notifying only while the backtest continues.
update_bars_quiet ==
    /\ calls < MaxCalls
    /\ LET st == update_loop(bars_data,
                             [gen |-> bars_generator,
                              latest |-> latest_bars_data,
                              flag |-> continue_backtest,
                              succ |-> succ,
                              exhausted |-> exhausted],
                             symbols, 1)
       IN  /\ bars_generator' = st.gen
           /\ latest_bars_data' = st.latest
           /\ continue_backtest' = st.flag
           /\ succ' = st.succ
           /\ exhausted' = st.exhausted
           /\ events' = IF st.flag THEN put(events, MarketEvent) ELSE events
    /\ calls' = calls + 1
    /\ ret' = Returned("update_bars")
    /\ UNCHANGED <<symbols, csv_dir, bars_data>>

update_bars ==
    /\ calls < MaxCalls
    /\ LET st == update_loop(bars_data,
                             [gen |-> bars_generator,
                              latest |-> latest_bars_data,
                              flag |-> continue_backtest,
                              succ |-> succ,
                              exhausted |-> exhausted],
                             symbols, 1)
       IN  /\ bars_generator' = st.gen
           /\ latest_bars_data' = st.latest
           /\ continue_backtest' = st.flag
           /\ succ' = st.succ
           /\ exhausted' = st.exhausted
    /\ events' = put(events, MarketEvent)
    /\ calls' = calls + 1
    /\ ret' = Returned("update_bars")
    /\ UNCHANGED <<symbols, csv_dir, bars_data>>

\* __init__
Init ==
    /\ symbols \in SymbolLists
    /\ csv_dir \in [Range(symbols) -> [1..MaxT -> CellKinds]]
    /\ bars_data = Panel(open_convert_csv_files(symbols, csv_dir))
    /\ latest_bars_data = [s \in Range(symbols) |-> <<>>]
    /\ continue_backtest = TRUE
    /\ bars_generator = create_bars_generator(symbols)
    /\ events = <<>>
    /\ ret = Returned("__init__")
    /\ calls = 0
    /\ succ = [s \in Range(symbols) |-> 0]
    /\ exhausted = {}

Next == update_bars \/ get_latest_bars

Spec == Init /\ [][Next]_vars

\* ---------------------------------------------------------------- claims
Registered == Range(symbols)
Table(s)   == bars_data.frames[s]
Value(s, n) == get_latest_bars_value(latest_bars_data, s, n)

\* The step is a call of update_bars (it alone counts calls).
IsUpdate == calls' = calls + 1
\* The step is a call of get_latest_bars.
IsQuery == ret'.op = "get_latest_bars"

Extends(old, new) ==
    \/ new = old
    \/ /\ Len(new) = Len(old) + 1
       /\ SubSeq(new, 1, Len(old)) = old

\* C1: every update_bars() call enqueues exactly one notification, whatever
\* the symbols' exhaustion state; after m calls the channel holds exactly m
\* notifications; no step ever removes one.
C1_NotificationPerCall ==
    [][ /\ IsUpdate => events' = Append(events, MarketEvent)
        /\ ~IsUpdate => events' = events
        /\ Len(events') = calls'
        /\ \A i \in 1..Len(events') : events'[i] = MarketEvent ]_vars

C1_Witness ==
    /\ Len(symbols) = 2
    /\ Len(bars_data.major_axis) = 2
    /\ exhausted = Registered
    /\ calls = 4
    /\ Len(events) = 4
    /\ ret.op = "get_latest_bars"
    /\ ret.out.kind = "DataFrame"

\* C2: once an update_bars() call has found a symbol exhausted, the
\* continuation flag is false after that call and after every later call,
\* it never goes back to true, and that symbol's history never grows again.
C2_StickyTermination ==
    [][ /\ exhausted' # {} => ~continue_backtest'
        /\ ~continue_backtest => ~continue_backtest'
        /\ \A s \in exhausted :
              Len(latest_bars_data'[s]) <= Len(latest_bars_data[s]) ]_vars

C2_Witness ==
    /\ Len(symbols) = 2
    /\ Len(bars_data.major_axis) = 2
    /\ exhausted = Registered
    /\ ~continue_backtest
    /\ calls = 4
    /\ ret.op = "update_bars"
    /\ Len(latest_bars_data["MSFT"]) = 2

\* C3: after k successful update_bars() calls for a registered symbol,
\* get_latest_bars(symbol, n) with n >= 1 returns exactly min(n, k) bars:
\* rows k-min(n,k)+1 .. k of the symbol's table, in ascending timestamp order.
C3_MonotonicHistory ==
    \A s \in Registered, n \in 1..MaxN :
        LET k == succ[s]
            m == Min(n, k)
            r == Value(s, n)
        IN  /\ r.kind = "DataFrame"
            /\ Len(r.bars) = m
            /\ \A j \in 1..m : r.bars[j] = Table(s)[k - m + j]
            /\ \A j \in 1..(m - 1) : r.bars[j].datetime < r.bars[j + 1].datetime

C3_Witness ==
    /\ Len(symbols) = 2
    /\ ret.symbol = "MSFT"
    /\ ret.n = 2
    /\ calls = 3
    /\ succ["MSFT"] = 3
    /\ Len(ret.out.bars) = 2
    /\ ret.out.bars[1] = Table("MSFT")[2]
    /\ ret.out.bars[2] = Table("MSFT")[3]

\* C4: get_latest_bars on a symbol that was never registered reports the
\* condition, returns no data, does not raise, and leaves histories, cursors,
\* the continuation flag and the event channel unchanged, in every state.
C4_UnknownSymbol ==
    [][ /\ \A sym \in Universe \ Range(symbols'), n \in 0..MaxN :
              LET r == get_latest_bars_value(latest_bars_data', sym, n)
              IN  r.kind = "None" /\ r.printed /\ r.bars = <<>>
        /\ (IsQuery /\ ret'.symbol \notin Registered) =>
              /\ ret'.out.kind = "None"
              /\ ret'.out.printed
              /\ UNCHANGED <<latest_bars_data, bars_generator,
                             continue_backtest, events>> ]_vars

C4_Witness ==
    /\ symbols = <<"AAPL">>
    /\ ret.symbol = "MSFT"
    /\ ret.out.kind = "None"
    /\ ret.out.printed
    /\ exhausted = {"AAPL"}
    /\ Len(latest_bars_data["AAPL"]) = 2

RawKeys(s) ==
    {parse_dates(DateOf(t), TimeOf(t)) :
        t \in {u \in 1..MaxT : csv_dir[s][u] # "absent"}}

\* C6: after construction every symbol's table has the same length and the
\* same timestamp keys, the union of all symbols' raw timestamps.
C6_Alignment ==
    \A s \in Registered :
        /\ Len(Table(s)) = Len(Table(symbols[1]))
        /\ Index(Table(s)) = Index(Table(symbols[1]))
        /\ Range(Index(Table(s))) = UNION {RawKeys(x) : x \in Registered}
        /\ Len(Table(s)) = Cardinality(UNION {RawKeys(x) : x \in Registered})

C6_Witness ==
    /\ Len(symbols) = 2
    /\ csv_dir["AAPL"] = [t \in 1..MaxT |-> IF t = 2 THEN "full" ELSE "absent"]
    /\ csv_dir["MSFT"] = [t \in 1..MaxT |-> IF t = 2 THEN "absent" ELSE "full"]
    /\ Len(Table("AAPL")) = MaxT
    /\ calls = 0

\* The last raw close of file s strictly before key T (NaN if there is none).
RawCloseBefore(s, T) ==
    LET raw == read_csv(csv_dir, s)
        J   == {j \in 1..Len(raw) : raw[j].datetime < T /\ raw[j].close # NaN}
    IN  IF J = {} THEN NaN
        ELSE raw[CHOOSE j \in J : \A i \in J : i <= j].close

\* C7: at every key T of the aligned index where a symbol has no raw
\* observation but has an earlier one, the table's close is the symbol's last
\* raw close before T and its volume is 0; rows with a raw observation keep
\* their raw values.
C7_ForwardFill ==
    \A s \in Registered : \A i \in 1..Len(Table(s)) :
        LET row == Table(s)[i]
            T   == row.datetime
            raw == read_csv(csv_dir, s)
            J   == {j \in 1..Len(raw) : raw[j].datetime = T}
        IN  /\ (J = {} /\ RawCloseBefore(s, T) # NaN) =>
                  /\ row.close = RawCloseBefore(s, T)
                  /\ row.volume = 0
            /\ \A j \in J :
                  /\ raw[j].close # NaN => row.close = raw[j].close
                  /\ raw[j].volume # NaN => row.volume = raw[j].volume

\* C8: for every registered symbol and every n >= 0, get_latest_bars(symbol,
\* n) returns at most n bars, and the whole buffer only when n is at least
\* the buffer's length.
C8_AtMostN ==
    \A s \in Registered, n \in 0..MaxN :
        LET r == Value(s, n)
        IN  /\ Len(r.bars) <= n
            /\ r.bars = latest_bars_data[s] => n >= Len(latest_bars_data[s])

\* C9: for a feed with one symbol whose table has L rows, each of the first L
\* update_bars() calls appends one bar and leaves the flag true; call L+1
\* appends nothing and sets the flag false; after any m >= L+1 calls the flag
\* is false and get_latest_bars(symbol, n) with n >= L returns exactly L bars.
C9_ExhaustionTiming ==
    Len(symbols) = 1 =>
        LET s == symbols[1]
            L == Len(Table(s))
        IN  /\ calls <= L =>
                  /\ continue_backtest
                  /\ exhausted = {}
                  /\ Len(latest_bars_data[s]) = calls
            /\ calls >= L + 1 =>
                  /\ ~continue_backtest
                  /\ exhausted = {s}
                  /\ Len(latest_bars_data[s]) = L
                  /\ latest_bars_data[s] = Table(s)
                  /\ \A n \in L..MaxN : Len(Value(s, n).bars) = L

C9_Witness ==
    /\ Len(symbols) = 1
    /\ Len(Table("AAPL")) = 2
    /\ calls = 4
    /\ ~continue_backtest
    /\ ret.symbol = "AAPL"
    /\ ret.n = 3
    /\ Len(ret.out.bars) = 2

\* C10: no operation changes the loaded tables after construction;
\* get_latest_bars changes no histories, cursors, flag or channel; update_bars
\* changes a history only by appending one bar at its end.
C10_Frame ==
    [][ /\ bars_data' = bars_data
        /\ csv_dir' = csv_dir
        /\ symbols' = symbols
        /\ IsQuery => UNCHANGED <<latest_bars_data, bars_generator,
                                  continue_backtest, events>>
        /\ ~IsUpdate => latest_bars_data' = latest_bars_data
        /\ \A s \in Registered :
              Extends(latest_bars_data[s], latest_bars_data'[s]) ]_vars

C10_Witness ==
    /\ Len(symbols) = 2
    /\ Len(latest_bars_data["AAPL"]) = 3
    /\ Len(latest_bars_data["MSFT"]) = 3
    /\ ret.op = "get_latest_bars"
    /\ ret.out.kind = "DataFrame"
    /\ Len(ret.out.bars) = 2
    /\ calls = 3

=============================================================================
